---- MODULE Spec2Model ----
(***************************************************************************)
(* Meta-search orchestration (backend/apps/search): the orchestrator's     *)
(* search strategies, its statistics under the statistics lock, URL        *)
(* canonicalisation, deduplication and ranking.                            *)
(*                                                                         *)
(* Strings of the program are modelled as tokens: a URL is a record of its *)
(* parsed components (urlparse), each a token or a sequence of tokens; a   *)
(* title or snippet is its set of lowercase words plus its length.         *)
(***************************************************************************)
EXTENDS Integers, Sequences, FiniteSets, TLC

(***************************************************************************)
(* Bounds of the model                                                     *)
(***************************************************************************)
\* total number of search() calls made on the orchestrator
MaxSearches == 2
\* total number of load_adapters() calls
MaxLoads == 1
\* length of the lists of names given to load_adapters()
MaxNames == 3
\* length of the lists given to rank_results()
MaxResults == 3
\* number of key=value pairs of a query string
MaxPairs == 3
\* length of the lists given to deduplicate_urls()
MaxUrls == 3
\* number of entries a backend has for a query
MaxItems == 2
\* largest limit given to an adapter
MaxLimit == 2

\* caller threads that may be inside search() at a time
Callers == {1, 2}

(***************************************************************************)
(* Small helpers                                                           *)
(***************************************************************************)
Range(s) == {s[i] : i \in 1..Len(s)}

Min(a, b) == IF a < b THEN a ELSE b

Max(a, b) == IF a > b THEN a ELSE b

RECURSIVE Flatten(_)
Flatten(ss) == IF ss = <<>> THEN <<>> ELSE Head(ss) \o Flatten(Tail(ss))

\* a slice that cuts nothing
Prefix_NoLimit(s, n) == s

\* results[:n]
Prefix(s, n) == SubSeq(s, 1, Min(Len(s), n))

(***************************************************************************)
(* Tokens: str.lower(), len() and the order of str comparison              *)
(***************************************************************************)
LowerTok(t) ==
    CASE t = "HTTPS" -> "https"
      [] t = "WWW" -> "www"
      [] t = "A" -> "a"
      [] t = "UTM_SOURCE" -> "utm_source"
      [] t = "Ref" -> "ref"
      [] t = "ranMID" -> "ranmid"
      [] OTHER -> t

TokLen(t) ==
    CASE t \in {"", "/"} -> IF t = "" THEN 0 ELSE 1
      [] t \in {"a", "A", "b", "x", "y", "m", "1", "2", "3", " "} -> 1
      [] t \in {"id"} -> 2
      [] t \in {"www", "WWW", "com", "org", "ref", "Ref"} -> 3
      [] t \in {"http", "www2"} -> 4
      [] t \in {"https", "HTTPS", "other", "utm_x"} -> 5
      [] t \in {"mobile", "ranMID", "ranmid"} -> 6
      [] t \in {"utm_source", "UTM_SOURCE", "utm_medium"} -> 10
      [] OTHER -> 4

\* position of a token in the str order of Python (code point order)
TokRank(t) ==
    CASE t = "" -> 0
      [] t = " " -> 1
      [] t = "1" -> 2
      [] t = "2" -> 3
      [] t = "3" -> 4
      [] t = "A" -> 5
      [] t = "Ref" -> 6
      [] t = "UTM_SOURCE" -> 7
      [] t = "a" -> 8
      [] t = "b" -> 9
      [] t = "id" -> 10
      [] t = "ranMID" -> 11
      [] t = "ref" -> 12
      [] t = "utm_medium" -> 13
      [] t = "utm_source" -> 14
      [] t = "utm_x" -> 15
      [] t = "x" -> 16
      [] t = "y" -> 17
      [] OTHER -> 18

(***************************************************************************)
(* URL canonicalisation (utils.py)                                         *)
(***************************************************************************)
\* the result of urlparse: scheme, netloc as its dot-separated labels, path
\* as its tokens ("/" is a token of its own), query as its key=value pairs in
\* order, fragment
Url(scheme, host, path, query, frag) ==
    [scheme |-> scheme, host |-> host, path |-> path, query |-> query, frag |-> frag]

EmptyUrl == Url("", <<>>, <<>>, <<>>, "")

TrackingParams ==
    {"utm_source", "utm_medium", "utm_campaign", "utm_term", "utm_content", "utm_id",
     "utm_source_platform", "utm_creative_format", "utm_marketing_tactic",
     "fbclid", "fb_action_ids", "fb_action_types", "fb_ref", "fb_source",
     "ref_src", "ref_url", "twclid",
     "gclid", "gclsrc", "dclid", "zanpid", "ranMID", "ranEAID", "ranSiteID", "spm",
     "_hsenc", "_hsmi", "hsctatracking", "mc_cid", "mc_eid",
     "pk_campaign", "pk_kwd", "pk_medium", "pk_source",
     "ref", "referer", "referrer", "source", "campaign", "medium",
     "t", "timestamp", "_t",
     "v", "version", "ver", "cache", "random", "r", "_"}

\* key.lower().startswith("utm_")
StartsWithUtm(t) == t \in {"utm_source", "utm_medium", "utm_x"}

\* the host labels matched by www\d* , m and mobile
IsWwwLabel(l) == l \in {"www", "www2"}

\* re.sub(pattern, "", domain): the pattern is anchored at the start and needs
\* the dot after the label, so it removes one leading label that is followed
\* by another label
IsMLabel(l) == l = "m"

IsMobileLabel(l) == l = "mobile"

\* whether a label matches the i-th of www_patterns
MatchesPattern(i, l) ==
    CASE i = 1 -> IsWwwLabel(l)
      [] i = 2 -> IsMLabel(l)
      [] i = 3 -> IsMobileLabel(l)

StripLeading(host, i) ==
    IF Len(host) >= 2 /\ MatchesPattern(i, host[1]) THEN Tail(host) ELSE host

\* _normalize_domain: the three www_patterns, one after the other
NormalizeDomain(host) ==
    IF host = <<>> THEN host
    ELSE StripLeading(StripLeading(StripLeading(host, 1), 2), 3)

RECURSIVE CollapseSlashes(_)
CollapseSlashes(path) ==
    IF Len(path) < 2 THEN path
    ELSE IF path[1] = "/" /\ path[2] = "/" THEN CollapseSlashes(Tail(path))
    ELSE <<path[1]>> \o CollapseSlashes(Tail(path))

RECURSIVE RStripSlashes(_)
RStripSlashes(path) ==
    IF path # <<>> /\ path[Len(path)] = "/"
    THEN RStripSlashes(SubSeq(path, 1, Len(path) - 1))
    ELSE path

\* _normalize_path
NormalizePath(path) ==
    IF path = <<>> THEN <<"/">>
    ELSE LET collapsed == CollapseSlashes(path)
             stripped == IF Len(collapsed) > 1 /\ collapsed[Len(collapsed)] = "/"
                         THEN RStripSlashes(collapsed)
                         ELSE collapsed
         IN  IF stripped = <<>> \/ stripped[1] # "/"
             THEN <<"/">> \o stripped
             ELSE stripped

\* the keys of a list of pairs in first-seen order (the key order of the dict
\* parse_qs builds)
RECURSIVE KeysInOrder(_, _)
KeysInOrder(pairs, seen) ==
    IF pairs = <<>> THEN <<>>
    ELSE IF pairs[1][1] \in seen THEN KeysInOrder(Tail(pairs), seen)
    ELSE <<pairs[1][1]>> \o KeysInOrder(Tail(pairs), seen \cup {pairs[1][1]})

\* params[key]: the values of a key in order of appearance
RECURSIVE ValuesOf(_, _)
ValuesOf(pairs, key) ==
    IF pairs = <<>> THEN <<>>
    ELSE (IF pairs[1][1] = key THEN <<pairs[1][2]>> ELSE <<>>)
         \o ValuesOf(Tail(pairs), key)

\* sorted() of a list of str
RECURSIVE InsertTok(_, _)
InsertTok(sorted, t) ==
    IF sorted = <<>> THEN <<t>>
    ELSE IF TokRank(t) < TokRank(sorted[1]) THEN <<t>> \o sorted
    ELSE <<sorted[1]>> \o InsertTok(Tail(sorted), t)

RECURSIVE SortToks(_)
SortToks(s) ==
    IF s = <<>> THEN <<>> ELSE InsertTok(SortToks(SubSeq(s, 1, Len(s) - 1)), s[Len(s)])

\* str.strip() of a query value
StripTok(t) == IF t = " " THEN "" ELSE t

IsTrackingKey(key) ==
    LowerTok(key) \in TrackingParams \/ StartsWithUtm(LowerTok(key))

\* _normalize_query: parse_qs drops blank values and groups the values by
\* key; tracking keys and the keys whose values are all whitespace are
\* removed; the pairs are written key by key
NormalizeQuery(query, remove_tracking, sort_params) ==
    LET parsed == SelectSeq(query, LAMBDA kv : kv[2] # "")
        keys == KeysInOrder(parsed, {})
        untracked == SelectSeq(keys, LAMBDA k : ~(remove_tracking /\ IsTrackingKey(k)))
        kept == SelectSeq(untracked,
                          LAMBDA k : \E i \in 1..Len(ValuesOf(parsed, k)) :
                                        StripTok(ValuesOf(parsed, k)[i]) # "")
        ordered == IF sort_params THEN SortToks(kept) ELSE kept
        PairsOf(k) ==
            LET vals == IF sort_params THEN SortToks(ValuesOf(parsed, k))
                        ELSE ValuesOf(parsed, k)
            IN  [i \in 1..Len(vals) |-> <<k, vals[i]>>]
    IN  Flatten([i \in 1..Len(ordered) |-> PairsOf(ordered[i])])

\* canonicalize_url
CanonicalizeWith(url, remove_fragment, remove_tracking, normalize_domain, sort_query_params) ==
    IF url = EmptyUrl THEN EmptyUrl
    ELSE IF url.scheme = "" /\ url.host = <<>> THEN url
    ELSE LET scheme == IF url.scheme # "" THEN LowerTok(url.scheme) ELSE "https"
             lowered == [i \in 1..Len(url.host) |-> LowerTok(url.host[i])]
             netloc == IF normalize_domain THEN NormalizeDomain(lowered) ELSE lowered
         IN  Url(scheme, netloc, NormalizePath(url.path),
                 NormalizeQuery(url.query, remove_tracking, sort_query_params),
                 IF remove_fragment THEN "" ELSE url.frag)

\* canonicalize_url with its default options
Canonicalize(url) == CanonicalizeWith(url, TRUE, TRUE, TRUE, TRUE)

\* a value passed as url: None, a value that is not a str, or a str made of
\* leading whitespace, a text and trailing whitespace; the text is given by
\* its parts, and bad tells that urlparse raises ValueError on it (a
\* netloc such as [::1)
Value(kind, lead, url, bad, trail) ==
    [kind |-> kind, lead |-> lead, url |-> url, bad |-> bad, trail |-> trail]

NoneValue == Value("None", FALSE, EmptyUrl, FALSE, FALSE)

\* a str without surrounding whitespace
Str(url, bad) == Value("str", FALSE, url, bad, FALSE)

EmptyStr == Str(EmptyUrl, FALSE)

\* str.strip()
Strip(value) == [value EXCEPT !.lead = FALSE, !.trail = FALSE]

\* what a call returns or raises
Outcome(raised, value) == [raised |-> raised, value |-> value]

\* a canonicalize_url whose parse error reaches the caller
OnParseError_Raises(url) == Outcome(TRUE, url)

\* except Exception: return url
OnParseError(url) == Outcome(FALSE, url)

\* canonicalize_url from the value it is given to the value it returns
CanonicalizeValue(value, remove_fragment, remove_tracking, normalize_domain, sort_query_params) ==
    IF value.kind # "str" \/ value = EmptyStr THEN Outcome(FALSE, EmptyStr)
    ELSE LET url == Strip(value)
         IN  IF url = EmptyStr THEN Outcome(FALSE, EmptyStr)
             ELSE IF url.bad THEN OnParseError(url)
             ELSE IF url.url.scheme = "" /\ url.url.host = <<>> THEN Outcome(FALSE, url)
             ELSE Outcome(FALSE,
                          Str(CanonicalizeWith(url.url, remove_fragment, remove_tracking,
                                               normalize_domain, sort_query_params),
                              FALSE))

\* len() of the URL string
RECURSIVE SumLen(_)
SumLen(toks) == IF toks = <<>> THEN 0 ELSE TokLen(toks[1]) + SumLen(Tail(toks))

UrlLen(url) ==
    (IF url.scheme = "" THEN 0 ELSE TokLen(url.scheme) + 1)
    + (IF url.host = <<>> THEN 0 ELSE 2 + SumLen(url.host) + Len(url.host) - 1)
    + SumLen(url.path)
    + (IF url.query = <<>> THEN 0
       ELSE SumLen(Flatten(url.query)) + 2 * Len(url.query))
    + (IF url.frag = "" THEN 0 ELSE 1 + TokLen(url.frag))

\* a deduplication that compares the URLs as they are
RECURSIVE DedupUrls_Raw(_, _)
DedupUrls_Raw(urls, seen_canonical) ==
    IF urls = <<>> THEN <<>>
    ELSE IF urls[1] \notin seen_canonical
    THEN <<urls[1]>> \o DedupUrls_Raw(Tail(urls), seen_canonical \cup {urls[1]})
    ELSE DedupUrls_Raw(Tail(urls), seen_canonical)

\* URLCanonicalizer.deduplicate_urls
RECURSIVE DedupUrls(_, _)
DedupUrls(urls, seen_canonical) ==
    IF urls = <<>> THEN <<>>
    ELSE LET canonical == Canonicalize(urls[1])
         IN  IF canonical \notin seen_canonical
             THEN <<urls[1]>> \o DedupUrls(Tail(urls), seen_canonical \cup {canonical})
             ELSE DedupUrls(Tail(urls), seen_canonical)

\* a deduplication by the URLs as they are written
deduplicate_urls_Raw(urls) == DedupUrls_Raw(urls, {})

deduplicate_urls(urls) == DedupUrls(urls, {})

(***************************************************************************)
(* Search results and the adapters (adapters.py)                           *)
(***************************************************************************)
\* a title or snippet: its lowercase words (str.lower().split()) and len()
Text(words, length) == [words |-> words, len |-> length]

\* a result that keeps the URL it is given
SearchResult_Raw(title, url, snippet, source) ==
    [title |-> title, url |-> url, snippet |-> snippet, source |-> source]

\* SearchResult(title, url, snippet, source): __post_init__ stores the
\* canonical form of the URL it is given
SearchResult(title, url, snippet, source) ==
    [title |-> title, url |-> Canonicalize(url), snippet |-> snippet, source |-> source]

\* SearchAdapterFactory._adapters, in the order of the dict
Registry == <<"google", "bing", "duckduckgo", "lynx", "curl">>

\* the results the adapters of the model produce
ResultA ==
    SearchResult(Text({"rocket", "science", "basics"}, 21),
                 Url("https", <<"a", "com">>, <<"/", "x">>, <<>>, ""),
                 Text({"a", "comprehensive", "snippet", "about", "rockets"}, 64),
                 "duckduckgo")

ResultB ==
    SearchResult(Text({"rocket", "science"}, 14),
                 Url("https", <<"a", "com">>, <<"/", "x">>, <<<<"utm_source", "y">>>>, ""),
                 Text({"another", "snippet", "about", "rockets", "and", "science"}, 60),
                 "google")

ResultC ==
    SearchResult(Text({"different", "result"}, 16),
                 Url("https", <<"other", "org">>, <<>>, <<>>, ""),
                 Text({"other"}, 5),
                 "google")

ResultD ==
    SearchResult(Text({"rocket"}, 6),
                 Url("HTTPS", <<"m", "www", "A", "com">>, <<"/", "x", "/">>, <<>>, "y"),
                 Text({"rocket", "launch", "notes"}, 30),
                 "duckduckgo")

\* a result that differs from ResultA in a title word the queries do not have
ResultE ==
    SearchResult(Text({"rocket", "science", "primer"}, 21),
                 Url("https", <<"a", "com">>, <<"/", "x">>, <<>>, ""),
                 Text({"a", "comprehensive", "snippet", "about", "rockets"}, 64),
                 "duckduckgo")

\* adapter.search(query, limit) is outside the orchestrator: the lists an
\* adapter of the model may return when it does not raise
Outputs(name) ==
    CASE name = "duckduckgo" -> {<<ResultA>>, <<ResultD, ResultA>>}
      [] name = "google" -> {<<ResultB, ResultC>>}
      [] OTHER -> {<<>>}

(***************************************************************************)
(* The search methods of the five adapters (adapters.py)                   *)
(***************************************************************************)
\* an entry of a response (an item of the API answer, a result element of
\* the page, a title and URL of the lynx dump): title, link after a redirect
\* is unwrapped, snippet; a missing part is empty
Item(title, url, snippet) == [title |-> title, url |-> url, snippet |-> snippet]

NoText == Text({}, 0)

\* what is outside an adapter when search() runs: whether the API
\* credentials are set, whether the external tool is installed, how the HTTP
\* request ends ("ok", "error" for a failed request or status, "garbage"
\* for a body that cannot be parsed), how the subprocess ends ("ok",
\* "nonzero", "raises"), and the entries the backend has for the query
Env(creds, tool, http, proc, page) ==
    [creds |-> creds, tool |-> tool, http |-> http, proc |-> proc, page |-> page]

\* [SearchResult(...) for each entry]
ToResults(items, source) ==
    [i \in 1..Len(items) |->
        SearchResult(items[i].title, items[i].url, items[i].snippet, source)]

\* if title and url
Complete(items) == SelectSeq(items, LAMBDA item : item.title # NoText /\ item.url # EmptyUrl)

\* the limit of _parse_lynx_output and _parse_curl_results
ParseCap == 10

\* the most results an API gives for one request
ApiMax(name) == IF name = "google" THEN 10 ELSE 50

\* an adapter whose error reaches the caller
OnSearchError_Raises(source) == Outcome(TRUE, <<>>)

\* except Exception: return []
OnSearchError(source) == Outcome(FALSE, <<>>)

\* _search_scraping of google and bing, DuckDuckGoSearchAdapter.search: the
\* first limit result elements of the page, those with title and link
ScrapeSearch(source, env, limit) ==
    IF env.http = "error" THEN OnSearchError(source)
    ELSE LET elements == IF env.http = "garbage" THEN <<>> ELSE env.page
         IN  Outcome(FALSE, ToResults(Complete(Prefix(elements, limit)), source))

\* the API branch of google and bing: the API answers with at most the
\* number of items asked for, and every item becomes a result
ApiSearch(source, env, limit) ==
    IF env.http # "ok" THEN OnSearchError(source)
    ELSE Outcome(FALSE, ToResults(Prefix(env.page, Min(limit, ApiMax(source))), source))

\* GoogleSearchAdapter.search, BingSearchAdapter.search
ApiOrScrapeSearch(source, env, limit) ==
    IF ~env.creds THEN ScrapeSearch(source, env, limit) ELSE ApiSearch(source, env, limit)

\* LynxSearchAdapter._fallback_search
FallbackSearch(env, limit) == ScrapeSearch("duckduckgo", env, limit)

\* LynxSearchAdapter.search; _parse_lynx_output makes a result of every line
\* it takes for a title that is followed by a URL (the entries of the page
\* with title and link) until it has ParseCap results
LynxSearch(env, limit) ==
    IF ~env.tool THEN FallbackSearch(env, limit)
    ELSE IF env.proc # "ok" THEN FallbackSearch(env, limit)
    ELSE Outcome(FALSE, ToResults(Prefix(Complete(env.page), ParseCap), "lynx"))

\* CurlSearchAdapter.search
CurlSearch(env, limit) ==
    IF ~env.tool THEN Outcome(FALSE, <<>>)
    ELSE IF env.proc = "raises" THEN OnSearchError("curl")
    ELSE IF env.proc = "nonzero" THEN Outcome(FALSE, <<>>)
    ELSE Outcome(FALSE, ToResults(Complete(Prefix(env.page, ParseCap)), "curl"))

\* adapter.search(query, limit) of the adapter of a name
AdapterSearchOutcome(name, env, limit) ==
    CASE name \in {"google", "bing"} -> ApiOrScrapeSearch(name, env, limit)
      [] name = "duckduckgo" -> ScrapeSearch(name, env, limit)
      [] name = "lynx" -> LynxSearch(env, limit)
      [] name = "curl" -> CurlSearch(env, limit)

(***************************************************************************)
(* SearchConfig and ResultRanker (orchestrator.py)                         *)
(***************************************************************************)
SearchConfig(max_results_per_adapter, timeout_seconds, enable_deduplication, enable_ranking, preferred_adapters, fallback_adapters, min_snippet_length, max_total_results) ==
    [max_results_per_adapter |-> max_results_per_adapter,
     timeout_seconds |-> timeout_seconds,
     enable_deduplication |-> enable_deduplication,
     enable_ranking |-> enable_ranking,
     preferred_adapters |-> preferred_adapters,
     fallback_adapters |-> fallback_adapters,
     min_snippet_length |-> min_snippet_length,
     max_total_results |-> max_total_results]

DefaultConfig ==
    SearchConfig(10, 30, TRUE, TRUE, <<"duckduckgo", "lynx", "curl">>,
                 <<"google", "bing">>, 20, 50)

\* ResultRanker.source_scores, in hundredths; 0.5 for any other source
SourceScore(source) ==
    CASE source = "duckduckgo" -> 90
      [] source = "google" -> 95
      [] source = "bing" -> 85
      [] source = "lynx" -> 80
      [] source = "curl" -> 75
      [] OTHER -> 50

\* the tokens of the URL string that follow a dot: ".org" in url
AfterDot(url) == {LowerTok(url.host[i]) : i \in 2..Len(url.host)}

UrlTokens(url) ==
    {LowerTok(t) : t \in Range(url.host) \cup Range(url.path)}

\* _calculate_domain_authority, in hundredths: the first indicator of the
\* dict that occurs in the URL decides
DomainAuthority(url) ==
    IF "edu" \in AfterDot(url) THEN 90
    ELSE IF "gov" \in AfterDot(url) THEN 95
    ELSE IF "org" \in AfterDot(url) THEN 80
    ELSE IF "wikipedia" \in UrlTokens(url) THEN 85
    ELSE IF "github" \in UrlTokens(url) THEN 80
    ELSE IF "stackoverflow" \in UrlTokens(url) THEN 80
    ELSE 50

\* _calculate_result_score times 100 * 200 * n, n the number of query terms
\* (1 when there is none): the six weighted factors over a common denominator
Score(result, query_terms) ==
    LET n == Max(Cardinality(query_terms), 1)
        title_matches == Cardinality(query_terms \cap result.title.words)
        snippet_matches == Cardinality(query_terms \cap result.snippet.words)
    IN  30 * 200 * (IF query_terms = {} THEN 0 ELSE title_matches)
        + 25 * 200 * (IF query_terms = {} THEN 0 ELSE snippet_matches)
        + 15 * 2 * n * Max(0, 100 - UrlLen(result.url))
        + 15 * 2 * n * SourceScore(result.source)
        + 10 * n * Min(200, result.snippet.len)
        + 5 * 2 * n * DomainAuthority(result.url)

\* list.sort(key=score, reverse=True): a stable sort, so a result is placed
\* after the results already placed whose score is not smaller
\* a sort that puts a result before the results of equal score
RECURSIVE InsertByScore_Unstable(_, _, _)
InsertByScore_Unstable(sorted, result, query_terms) ==
    IF sorted = <<>> THEN <<result>>
    ELSE IF Score(result, query_terms) >= Score(sorted[1], query_terms)
    THEN <<result>> \o sorted
    ELSE <<sorted[1]>> \o InsertByScore_Unstable(Tail(sorted), result, query_terms)

\* list.sort(key=score, reverse=True) one element at a time: a result goes
\* after the results of equal score that precede it in the list
RECURSIVE InsertByScore(_, _, _)
InsertByScore(sorted, result, query_terms) ==
    IF sorted = <<>> THEN <<result>>
    ELSE IF Score(result, query_terms) > Score(sorted[1], query_terms)
    THEN <<result>> \o sorted
    ELSE <<sorted[1]>> \o InsertByScore(Tail(sorted), result, query_terms)

\* ResultRanker.rank_results
RECURSIVE rank_results(_, _)
rank_results(results, query_terms) ==
    IF results = <<>> THEN <<>>
    ELSE InsertByScore(rank_results(SubSeq(results, 1, Len(results) - 1), query_terms),
                       results[Len(results)], query_terms)

(***************************************************************************)
(* MetaSearchOrchestrator: the steps of search() that touch no shared      *)
(* state                                                                   *)
(***************************************************************************)
\* the quality filter of _search_with_adapter
FilterBySnippet(results, config) ==
    SelectSeq(results, LAMBDA r : r.snippet.len >= config.min_snippet_length)

\* the loop of _deduplicate_results over the results, with seen_urls
RECURSIVE KeepUnique(_, _, _)
KeepUnique(results, unique_urls, seen_urls) ==
    IF results = <<>> THEN <<>>
    ELSE IF results[1].url \in unique_urls /\ results[1].url \notin seen_urls
    THEN <<results[1]>>
         \o KeepUnique(Tail(results), unique_urls, seen_urls \cup {results[1].url})
    ELSE KeepUnique(Tail(results), unique_urls, seen_urls)

\* _deduplicate_results
DeduplicateResults(results) ==
    IF results = <<>> THEN <<>>
    ELSE LET urls == [i \in 1..Len(results) |-> results[i].url]
         IN  KeepUnique(results, Range(deduplicate_urls(urls)), {})

\* the post-processing of search(): deduplicate, rank, limit
PostProcess(results, query_terms, config) ==
    LET deduped == IF config.enable_deduplication THEN DeduplicateResults(results)
                   ELSE results
        ranked == IF config.enable_ranking THEN rank_results(deduped, query_terms)
                  ELSE deduped
    IN  Prefix(ranked, config.max_total_results)

\* the adapters of a list whose name is in a list of names
AdaptersNamed(adapter_list, names) ==
    SelectSeq(adapter_list, LAMBDA a : a \in Range(names))

\* quick_config of _execute_adaptive_search: the fields not passed keep the
\* defaults of SearchConfig
QuickConfig(config) ==
    [DefaultConfig EXCEPT
        !.max_results_per_adapter = config.max_results_per_adapter \div 2,
        !.timeout_seconds = config.timeout_seconds \div 2,
        !.enable_deduplication = config.enable_deduplication,
        !.enable_ranking = FALSE]

\* adapter_names = None, told apart from every list of names
None == <<"<None>">>

\* load_adapters(adapter_names): `if adapter_names:` is false for None and
\* for the empty list, and then every adapter is loaded; otherwise
\* get_adapter raises for a name that is not registered and the name is
\* skipped
LoadedAdapters(adapter_names) ==
    IF adapter_names # None /\ adapter_names # <<>>
    THEN SelectSeq(adapter_names, LAMBDA name : name \in Range(Registry))
    ELSE Registry

(***************************************************************************)
(* The state of a MetaSearchOrchestrator and of the threads inside it      *)
(***************************************************************************)
VARIABLES
    adapters,   \* self.adapters: the names of the loaded adapters, in order
    loaded,     \* the list load_adapters stored last
    config,     \* self.config
    stats,      \* self.search_stats
    lock,       \* the thread that holds self._stats_lock, or Free
    call,       \* per caller thread: the frame of its search() call
    task,       \* per caller thread: the futures of its ThreadPoolExecutor
    applied,    \* the increments applied to search_stats so far, per counter
    invoked,    \* per adapter name: the calls of adapter.search made so far
    returned,   \* per adapter name: the calls of adapter.search that returned
    searches,   \* search() calls made so far
    loads,      \* load_adapters() calls made so far
    probe       \* a call of rank_results or canonicalize_url made directly:
                \* the function, its arguments and, once it returned, its value

vars == <<adapters, loaded, config, stats, lock, call, task, applied, invoked,
          returned, searches, loads, probe>>

AdapterNames == Range(Registry)

\* the inputs of the model
Queries == {{"rocket", "science"}, {}}

Strategies == {"parallel", "sequential", "adaptive", "bogus"}

ValidStrategies == {"parallel", "sequential", "adaptive"}

Overrides ==
    {[DefaultConfig EXCEPT !.enable_deduplication = FALSE],
     [DefaultConfig EXCEPT !.max_total_results = 1, !.timeout_seconds = 1,
                           !.min_snippet_length = 5]}

LoadChoices ==
    {<<"duckduckgo", "google">>, <<"google", "nonexistent", "duckduckgo">>}

\* threads: <<c, 0>> is caller c, <<c, i>> the worker of its i-th future
Free == <<0, 0>>

ZeroPerf == [calls |-> 0, successes |-> 0]

\* search_stats as __init__ and reset_statistics build it; an entry of
\* adapter_performance that was never touched reads as the defaultdict's zeros
ZeroStats ==
    [total_searches |-> 0, successful_searches |-> 0, failed_searches |-> 0,
     total_response_time |-> 0,
     adapter_performance |-> [n \in AdapterNames |-> ZeroPerf]]

NoCall == [adapter |-> "", raised |-> FALSE, res |-> <<>>]

\* one call of adapter.search made by a search() call: the pass and the
\* position in the adapter list it was made for, the adapter, whether it
\* raised, the list it returned
Invocation(pass, i, name, raises, out) ==
    [pass |-> pass, i |-> i, adapter |-> name, raised |-> raises, out |-> out]

IdleFrame ==
    [pc |-> "idle", strategy |-> "none", query |-> {}, config |-> DefaultConfig,
     results |-> <<>>, pass |-> "none", pconfig |-> DefaultConfig, presults |-> <<>>,
     sub |-> <<>>, tmp |-> <<>>, iter |-> <<>>, idx |-> 0, cur |-> NoCall,
     reg |-> 0, preg |-> ZeroPerf, timedout |-> FALSE, dispatched |-> <<>>,
     log |-> {}, ret |-> <<>>, verdict |-> "none", outcome |-> "none"]

\* no direct call
NoProbe == [fn |-> "none", args |-> <<>>, note |-> "", done |-> FALSE, out |-> <<>>]

\* MetaSearchOrchestrator(): nothing loaded, the default configuration, zero
\* statistics
Fresh ==
    /\ adapters = <<>>
    /\ loaded = <<>>
    /\ config = DefaultConfig
    /\ stats = ZeroStats
    /\ lock = Free
    /\ call = [c \in Callers |-> IdleFrame]
    /\ task = [c \in Callers |-> <<>>]
    /\ applied = ZeroStats
    /\ invoked = [n \in AdapterNames |-> 0]
    /\ returned = [n \in AdapterNames |-> 0]
    /\ searches = 0
    /\ loads = 0

Init == Fresh /\ probe = NoProbe

InFlight(c) == call[c].pc \notin {"idle", "done"}

\* a lock that excludes nobody
CanAcquire_NoLock(tid) == TRUE

\* with self._stats_lock: entering blocks until no thread holds the lock
CanAcquire(tid) == lock = Free

\* _update_adapter_stats on the record read under the lock
UpdatedPerf(perf, success) ==
    [calls |-> perf.calls + 1,
     successes |-> IF success THEN perf.successes + 1 ELSE perf.successes]

AddPerf(s, name, success) ==
    [s EXCEPT !.adapter_performance[name] = UpdatedPerf(@, success)]

\* load_adapters
LoadAdapters(names) ==
    /\ loads < MaxLoads
    /\ \A c \in Callers : ~InFlight(c)
    /\ adapters' = LoadedAdapters(names)
    /\ loaded' = LoadedAdapters(names)
    /\ loads' = loads + 1
    /\ UNCHANGED <<probe, config, stats, lock, call, task, applied, invoked, returned, searches>>

\* search(): the effective configuration and the start of the call
SearchBegin(c, query, strategy, search_config) ==
    /\ searches < MaxSearches
    /\ ~InFlight(c)
    /\ searches' = searches + 1
    /\ call' = [call EXCEPT ![c] =
                  [IdleFrame EXCEPT !.pc = "total", !.strategy = strategy,
                                    !.query = query, !.config = search_config]]
    /\ task' = [task EXCEPT ![c] = <<>>]
    /\ UNCHANGED <<probe, adapters, loaded, config, stats, lock, applied, invoked, returned, loads>>

\* search(): with self._stats_lock, read total_searches
TotalLock(c) ==
    /\ call[c].pc = "total"
    /\ CanAcquire(<<c, 0>>)
    /\ lock' = <<c, 0>>
    /\ call' = [call EXCEPT ![c].pc = "total_w", ![c].reg = stats.total_searches]
    /\ UNCHANGED <<probe, adapters, loaded, config, stats, task, applied, invoked, returned,
                   searches, loads>>

\* a branch that raises ValueError outside the try: the call ends, counted
\* neither as a success nor as a failure
StrategyEntry_Uncounted(strategy) ==
    CASE strategy = "parallel" -> "par_begin"
      [] strategy = "sequential" -> "seq_begin"
      [] strategy = "adaptive" -> "ad_pref"
      [] OTHER -> "done"

\* the branch of search() on the strategy; any other value raises ValueError
\* inside the try
StrategyEntry(strategy) ==
    CASE strategy = "parallel" -> "par_begin"
      [] strategy = "sequential" -> "seq_begin"
      [] strategy = "adaptive" -> "ad_pref"
      [] OTHER -> "failed"

\* search(): total_searches += 1, release the lock, enter the strategy
TotalWrite(c) ==
    /\ call[c].pc = "total_w"
    /\ stats' = [stats EXCEPT !.total_searches = call[c].reg + 1]
    /\ applied' = [applied EXCEPT !.total_searches = @ + 1]
    /\ lock' = Free
    /\ call' = [call EXCEPT ![c].pc = StrategyEntry(call[c].strategy), ![c].reg = 0,
                            ![c].pass = "all", ![c].pconfig = call[c].config]
    /\ UNCHANGED <<probe, adapters, loaded, config, task, invoked, returned, searches, loads>>

(***************************************************************************)
(* _execute_parallel_search and the worker threads of its executor         *)
(***************************************************************************)
NewTask(name) ==
    [adapter |-> name, st |-> "queued", raised |-> FALSE, res |-> <<>>,
     yielded |-> FALSE, preg |-> ZeroPerf]

\* _execute_parallel_search: one future per adapter of self.adapters
ParallelBegin(c) ==
    /\ call[c].pc = "par_begin"
    /\ task' = [task EXCEPT ![c] = [i \in 1..Len(adapters) |-> NewTask(adapters[i])]]
    /\ call' = [call EXCEPT ![c].pc = "collect", ![c].presults = <<>>,
                            ![c].dispatched = @ \o adapters]
    /\ UNCHANGED <<probe, adapters, loaded, config, stats, lock, applied, invoked, returned,
                   searches, loads>>

\* _search_with_adapter in a worker: adapter.search returns a list, which is
\* filtered, or raises
AdapterCall(c, i, raises, out) ==
    /\ i \in 1..Len(task[c])
    /\ task[c][i].st = "queued"
    /\ task' = [task EXCEPT ![c][i] =
                  [@ EXCEPT !.st = "called", !.raised = raises,
                            !.res = IF raises THEN <<>>
                                    ELSE FilterBySnippet(out, call[c].pconfig)]]
    /\ call' = [call EXCEPT ![c].log =
                  @ \cup {Invocation(call[c].pass, i, task[c][i].adapter, raises, out)}]
    /\ invoked' = [invoked EXCEPT ![task[c][i].adapter] = @ + 1]
    /\ returned' = [returned EXCEPT ![task[c][i].adapter] = IF raises THEN @ ELSE @ + 1]
    /\ UNCHANGED <<probe, adapters, loaded, config, stats, lock, applied, searches, loads>>

\* _update_adapter_stats in a worker: take the lock and read the record
WorkerLock(c, i) ==
    /\ i \in 1..Len(task[c])
    /\ task[c][i].st = "called"
    /\ CanAcquire(<<c, i>>)
    /\ lock' = <<c, i>>
    /\ task' = [task EXCEPT ![c][i].st = "locked",
                            ![c][i].preg = stats.adapter_performance[task[c][i].adapter]]
    /\ UNCHANGED <<probe, adapters, loaded, config, stats, call, applied, invoked, returned,
                   searches, loads>>

\* _update_adapter_stats in a worker: write the record and release the lock;
\* the future then holds the filtered results or the exception raised again
WorkerWrite(c, i) ==
    /\ i \in 1..Len(task[c])
    /\ task[c][i].st = "locked"
    /\ stats' = [stats EXCEPT !.adapter_performance[task[c][i].adapter] =
                    UpdatedPerf(task[c][i].preg, ~task[c][i].raised)]
    /\ applied' = AddPerf(applied, task[c][i].adapter, ~task[c][i].raised)
    /\ lock' = Free
    /\ task' = [task EXCEPT ![c][i].st = "done", ![c][i].preg = ZeroPerf]
    /\ UNCHANGED <<probe, adapters, loaded, config, call, invoked, returned, searches, loads>>

\* a loop without the except branch: the exception leaves the method
OnFutureError_Propagates == "failed"

\* where future.result() raising leads: the except branch of the loop
OnFutureError == "exc"

\* the loop over as_completed: take a finished future; its results extend
\* the list, its exception is handled by the except branch
CollectResult(c, i) ==
    /\ call[c].pc = "collect"
    /\ i \in 1..Len(task[c])
    /\ task[c][i].st = "done"
    /\ ~task[c][i].yielded
    /\ task' = [task EXCEPT ![c][i].yielded = TRUE]
    /\ call' = [call EXCEPT ![c] =
                  IF task[c][i].raised
                  THEN [@ EXCEPT !.pc = OnFutureError, !.cur = [NoCall EXCEPT !.adapter = task[c][i].adapter,
                                                                        !.raised = TRUE]]
                  ELSE [@ EXCEPT !.presults = @ \o task[c][i].res]]
    /\ UNCHANGED <<probe, adapters, loaded, config, stats, lock, applied, invoked, returned,
                   searches, loads>>

\* as_completed(timeout=...) raises TimeoutError while a future has not
\* been handed out
CollectTimeout(c) ==
    /\ call[c].pc = "collect"
    /\ \E i \in 1..Len(task[c]) : ~task[c][i].yielded
    /\ call' = [call EXCEPT ![c].pc = "shutdown", ![c].timedout = TRUE]
    /\ UNCHANGED <<probe, adapters, loaded, config, stats, lock, task, applied, invoked,
                   returned, searches, loads>>

\* leaving the with block on the TimeoutError: the executor's shutdown waits
\* for every worker; the exception then leaves _execute_parallel_search and
\* _execute_adaptive_search and is caught by search()
ExecutorShutdown(c) ==
    /\ call[c].pc = "shutdown"
    /\ \A i \in 1..Len(task[c]) : task[c][i].st = "done"
    /\ call' = [call EXCEPT ![c].pc = "failed"]
    /\ task' = [task EXCEPT ![c] = <<>>]
    /\ UNCHANGED <<probe, adapters, loaded, config, stats, lock, applied, invoked, returned,
                   searches, loads>>

\* the test of _execute_adaptive_search after the preferred pass
NeedsFallback(results, search_config) ==
    Len(results) < search_config.max_total_results \div 2

\* _execute_parallel_search returns its results; in an adaptive pass
\* self.adapters = temp_adapters follows
ParallelReturn(c) ==
    /\ call[c].pc = "collect"
    /\ \A i \in 1..Len(task[c]) : task[c][i].yielded
    /\ task' = [task EXCEPT ![c] = <<>>]
    /\ LET merged == call[c].results \o call[c].presults
       IN  call' = [call EXCEPT ![c].results = merged,
                                ![c].pc = IF call[c].pass = "preferred"
                                             /\ NeedsFallback(merged, call[c].config)
                                          THEN "ad_fb" ELSE "success"]
    /\ adapters' = IF call[c].pass = "all" THEN adapters ELSE call[c].tmp
    /\ UNCHANGED <<probe, loaded, config, stats, lock, applied, invoked, returned, searches, loads>>

\* the except branch of the strategies: _update_adapter_stats(name, False),
\* take the lock and read the record
ExcLock(c) ==
    /\ call[c].pc = "exc"
    /\ CanAcquire(<<c, 0>>)
    /\ lock' = <<c, 0>>
    /\ call' = [call EXCEPT ![c].pc = "exc_w",
                            ![c].preg = stats.adapter_performance[call[c].cur.adapter]]
    /\ UNCHANGED <<probe, adapters, loaded, config, stats, task, applied, invoked, returned,
                   searches, loads>>

\* a loop that ends after its first adapter
SequentialNext_StopsEarly(frame) == "success"

\* the pc of _execute_sequential_search after the adapter at idx
SequentialNext(frame) ==
    IF frame.idx < Len(frame.iter) THEN "seq_call" ELSE "success"

\* the except branch: write the record, release the lock, go on with the loop
ExcWrite(c) ==
    /\ call[c].pc = "exc_w"
    /\ stats' = [stats EXCEPT !.adapter_performance[call[c].cur.adapter] =
                    UpdatedPerf(call[c].preg, FALSE)]
    /\ applied' = AddPerf(applied, call[c].cur.adapter, FALSE)
    /\ lock' = Free
    /\ call' = [call EXCEPT ![c] =
                  IF call[c].strategy = "sequential"
                  THEN [@ EXCEPT !.pc = SequentialNext(call[c]), !.idx = @ + 1,
                                 !.preg = ZeroPerf, !.cur = NoCall]
                  ELSE [@ EXCEPT !.pc = "collect", !.preg = ZeroPerf, !.cur = NoCall]]
    /\ UNCHANGED <<probe, adapters, loaded, config, task, invoked, returned, searches, loads>>

(***************************************************************************)
(* _execute_sequential_search                                              *)
(***************************************************************************)
\* the for loop starts on the list self.adapters names at that moment
SequentialBegin(c) ==
    /\ call[c].pc = "seq_begin"
    /\ call' = [call EXCEPT ![c].iter = adapters, ![c].idx = 1,
                            ![c].pc = IF adapters = <<>> THEN "success" ELSE "seq_call"]
    /\ UNCHANGED <<probe, adapters, loaded, config, stats, lock, task, applied, invoked,
                   returned, searches, loads>>

\* _search_with_adapter on the calling thread: adapter.search returns a list,
\* which is filtered, or raises
SequentialCall(c, raises, out) ==
    /\ call[c].pc = "seq_call"
    /\ LET name == call[c].iter[call[c].idx]
       IN  /\ call' = [call EXCEPT ![c].pc = "seq_stat",
                                   ![c].dispatched = Append(@, name),
                                   ![c].log = @ \cup {Invocation("all", call[c].idx, name,
                                                                   raises, out)},
                                   ![c].cur = [adapter |-> name, raised |-> raises,
                                               res |-> IF raises THEN <<>>
                                                       ELSE FilterBySnippet(out, call[c].config)]]
           /\ invoked' = [invoked EXCEPT ![name] = @ + 1]
           /\ returned' = [returned EXCEPT ![name] = IF raises THEN @ ELSE @ + 1]
    /\ UNCHANGED <<probe, adapters, loaded, config, stats, lock, task, applied, searches, loads>>

\* _update_adapter_stats of _search_with_adapter: take the lock, read
SequentialLock(c) ==
    /\ call[c].pc = "seq_stat"
    /\ CanAcquire(<<c, 0>>)
    /\ lock' = <<c, 0>>
    /\ call' = [call EXCEPT ![c].pc = "seq_stat_w",
                            ![c].preg = stats.adapter_performance[call[c].cur.adapter]]
    /\ UNCHANGED <<probe, adapters, loaded, config, stats, task, applied, invoked, returned,
                   searches, loads>>

\* _update_adapter_stats of _search_with_adapter: write, release; the results
\* extend the list, or the exception raised again reaches the except branch
SequentialWrite(c) ==
    /\ call[c].pc = "seq_stat_w"
    /\ stats' = [stats EXCEPT !.adapter_performance[call[c].cur.adapter] =
                    UpdatedPerf(call[c].preg, ~call[c].cur.raised)]
    /\ applied' = AddPerf(applied, call[c].cur.adapter, ~call[c].cur.raised)
    /\ lock' = Free
    /\ call' = [call EXCEPT ![c] =
                  IF call[c].cur.raised
                  THEN [@ EXCEPT !.pc = "exc", !.preg = ZeroPerf]
                  ELSE [@ EXCEPT !.pc = SequentialNext(call[c]), !.idx = @ + 1,
                                 !.preg = ZeroPerf, !.cur = NoCall,
                                 !.results = @ \o call[c].cur.res]]
    /\ UNCHANGED <<probe, adapters, loaded, config, task, invoked, returned, searches, loads>>

(***************************************************************************)
(* _execute_adaptive_search                                                *)
(***************************************************************************)
\* preferred_adapters = [a for a in self.adapters if ...]
AdaptivePreferred(c) ==
    /\ call[c].pc = "ad_pref"
    /\ LET preferred == AdaptersNamed(adapters, call[c].config.preferred_adapters)
       IN  call' = [call EXCEPT ![c].sub = preferred, ![c].pass = "preferred",
                                ![c].pc = IF preferred # <<>> THEN "ad_save"
                                          ELSE IF NeedsFallback(<<>>, call[c].config)
                                          THEN "ad_fb" ELSE "success"]
    /\ UNCHANGED <<probe, adapters, loaded, config, stats, lock, task, applied, invoked,
                   returned, searches, loads>>

\* fallback_adapters = [a for a in self.adapters if ...]
AdaptiveFallback(c) ==
    /\ call[c].pc = "ad_fb"
    /\ LET fallback == AdaptersNamed(adapters, call[c].config.fallback_adapters)
       IN  call' = [call EXCEPT ![c].sub = fallback, ![c].pass = "fallback",
                                ![c].pc = IF fallback # <<>> THEN "ad_save" ELSE "success"]
    /\ UNCHANGED <<probe, adapters, loaded, config, stats, lock, task, applied, invoked,
                   returned, searches, loads>>

\* temp_adapters = self.adapters
AdaptiveSave(c) ==
    /\ call[c].pc = "ad_save"
    /\ call' = [call EXCEPT ![c].tmp = adapters, ![c].pc = "ad_swap"]
    /\ UNCHANGED <<probe, adapters, loaded, config, stats, lock, task, applied, invoked,
                   returned, searches, loads>>

\* self.adapters = preferred_adapters (fallback_adapters), then the call of
\* _execute_parallel_search with quick_config (config)
AdaptiveSwap(c) ==
    /\ call[c].pc = "ad_swap"
    /\ adapters' = call[c].sub
    /\ call' = [call EXCEPT ![c].pc = "par_begin",
                            ![c].pconfig = IF call[c].pass = "preferred"
                                           THEN QuickConfig(call[c].config)
                                           ELSE call[c].config]
    /\ UNCHANGED <<probe, loaded, config, stats, lock, task, applied, invoked, returned,
                   searches, loads>>

(***************************************************************************)
(* search(): the end of the call                                           *)
(***************************************************************************)
\* the frame of a call that has ended: what it was called with, what it
\* gathered and what it gave back; its other locals are gone
Finished(frame, verdict, outcome, ret) ==
    [IdleFrame EXCEPT !.pc = "done", !.strategy = frame.strategy, !.query = frame.query,
                      !.config = frame.config, !.results = frame.results,
                      !.presults = frame.presults, !.pass = frame.pass,
                      !.timedout = frame.timedout, !.dispatched = frame.dispatched,
                      !.log = frame.log,
                      !.verdict = verdict, !.outcome = outcome, !.ret = ret]

\* with self._stats_lock after the post-processing: read successful_searches
SuccessLock(c) ==
    /\ call[c].pc = "success"
    /\ CanAcquire(<<c, 0>>)
    /\ lock' = <<c, 0>>
    /\ call' = [call EXCEPT ![c].pc = "success_w", ![c].reg = stats.successful_searches]
    /\ UNCHANGED <<probe, adapters, loaded, config, stats, task, applied, invoked, returned,
                   searches, loads>>

\* successful_searches += 1 and total_response_time += time.time() -
\* start_time (elapsed, in ticks of the clock), release; return the
\* post-processed results
SuccessWrite(c, elapsed) ==
    /\ call[c].pc = "success_w"
    /\ stats' = [stats EXCEPT !.successful_searches = call[c].reg + 1,
                              !.total_response_time = @ + elapsed]
    /\ applied' = [applied EXCEPT !.successful_searches = @ + 1,
                                  !.total_response_time = @ + elapsed]
    /\ lock' = Free
    /\ call' = [call EXCEPT ![c] =
                  Finished(@, "success", "returned",
                           PostProcess(call[c].results, call[c].query, call[c].config))]
    /\ UNCHANGED <<probe, adapters, loaded, config, task, invoked, returned, searches, loads>>

\* except Exception in search(): with self._stats_lock, read failed_searches
FailedLock(c) ==
    /\ call[c].pc = "failed"
    /\ CanAcquire(<<c, 0>>)
    /\ lock' = <<c, 0>>
    /\ call' = [call EXCEPT ![c].pc = "failed_w", ![c].reg = stats.failed_searches]
    /\ UNCHANGED <<probe, adapters, loaded, config, stats, task, applied, invoked, returned,
                   searches, loads>>

\* an except branch that raises again
ExceptOutcome_Raises == "raised"

\* how the except branch of search() ends: return []
ExceptOutcome == "returned"

\* failed_searches += 1, release; return []
FailedWrite(c) ==
    /\ call[c].pc = "failed_w"
    /\ stats' = [stats EXCEPT !.failed_searches = call[c].reg + 1]
    /\ applied' = [applied EXCEPT !.failed_searches = @ + 1]
    /\ lock' = Free
    /\ call' = [call EXCEPT ![c] = Finished(@, "failure", ExceptOutcome, <<>>)]
    /\ UNCHANGED <<probe, adapters, loaded, config, task, invoked, returned, searches, loads>>

(***************************************************************************)
(* The specification                                                       *)
(***************************************************************************)
\* one list per adapter
OneOutput(name) ==
    CASE name = "duckduckgo" -> {<<ResultA>>}
      [] name = "google" -> {<<ResultB, ResultC>>}
      [] OTHER -> {<<>>}

\* the lists an adapter may return: all of them, or one per adapter
Returns(all, name) == IF all THEN Outputs(name) ELSE OneOutput(name)

\* the time a search() call may take, in ticks of the clock
Durations == {1, 2}

\* the durations of a call: all of them, or one
Elapsed(timed) == IF timed THEN Durations ELSE {1}

\* the steps of the threads inside search()
Steps(all, timed) ==
    \/ \E c \in Callers : TotalLock(c)
    \/ \E c \in Callers : TotalWrite(c)
    \/ \E c \in Callers : ParallelBegin(c)
    \/ \E c \in Callers : \E i \in 1..Len(task[c]) :
          \E out \in Returns(all, task[c][i].adapter) : AdapterCall(c, i, FALSE, out)
    \/ \E c \in Callers : \E i \in 1..Len(task[c]) : AdapterCall(c, i, TRUE, <<>>)
    \/ \E c \in Callers : \E i \in 1..Len(task[c]) : WorkerLock(c, i)
    \/ \E c \in Callers : \E i \in 1..Len(task[c]) : WorkerWrite(c, i)
    \/ \E c \in Callers : \E i \in 1..Len(task[c]) : CollectResult(c, i)
    \/ \E c \in Callers : CollectTimeout(c)
    \/ \E c \in Callers : ExecutorShutdown(c)
    \/ \E c \in Callers : ParallelReturn(c)
    \/ \E c \in Callers : ExcLock(c)
    \/ \E c \in Callers : ExcWrite(c)
    \/ \E c \in Callers : SequentialBegin(c)
    \/ \E c \in Callers :
          /\ call[c].pc = "seq_call"
          /\ \E out \in Returns(all, call[c].iter[call[c].idx]) : SequentialCall(c, FALSE, out)
    \/ \E c \in Callers : SequentialCall(c, TRUE, <<>>)
    \/ \E c \in Callers : SequentialLock(c)
    \/ \E c \in Callers : SequentialWrite(c)
    \/ \E c \in Callers : AdaptivePreferred(c)
    \/ \E c \in Callers : AdaptiveFallback(c)
    \/ \E c \in Callers : AdaptiveSave(c)
    \/ \E c \in Callers : AdaptiveSwap(c)
    \/ \E c \in Callers : SuccessLock(c)
    \/ \E c \in Callers : \E elapsed \in Elapsed(timed) : SuccessWrite(c, elapsed)
    \/ \E c \in Callers : FailedLock(c)
    \/ \E c \in Callers : FailedWrite(c)

\* no other thread has called search()
Serial(c) == \A d \in Callers : d # c => call[d].pc = "idle"

\* search() calls made one after the other
Next ==
    \/ \E names \in LoadChoices : LoadAdapters(names)
    \/ \E c \in Callers, query \in Queries, strategy \in Strategies,
          search_config \in {config} \cup Overrides :
          Serial(c) /\ SearchBegin(c, query, strategy, search_config)
    \/ Steps(TRUE, FALSE)

Spec == Init /\ [][Next]_vars

\* search() calls that overlap: once the adapters are loaded, any caller
\* thread may start a call while another call is in flight
NextConcurrent ==
    \/ searches = 0 /\ LoadAdapters(<<"duckduckgo", "google">>)
    \/ \E c \in Callers, strategy \in Strategies :
          /\ loads > 0
          /\ \A d \in Callers : d < c => call[d].pc # "idle"
          /\ SearchBegin(c, {"rocket", "science"}, strategy, config)
    \/ Steps(FALSE, FALSE)

SpecConcurrent == Init /\ [][NextConcurrent]_vars

(***************************************************************************)
(* get_search_statistics                                                   *)
(***************************************************************************)
\* a quotient by one more than the denominator
Ratio_OffByOne(num, den) == [num |-> num, den |-> den + 1]

\* a quotient as the pair of its numerator and denominator
Ratio(num, den) == [num |-> num, den |-> den]

\* the snapshot of the aggregate counters with success_rate and
\* average_response_time, and the adapter_performance metrics of the
\* adapters with calls > 0
GetStatistics ==
    [total_searches |-> stats.total_searches,
     successful_searches |-> stats.successful_searches,
     failed_searches |-> stats.failed_searches,
     total_response_time |-> stats.total_response_time,
     success_rate |-> IF stats.total_searches > 0
                      THEN Ratio(stats.successful_searches, stats.total_searches)
                      ELSE Ratio(0, 1),
     average_response_time |-> IF stats.total_searches > 0
                               THEN Ratio(stats.total_response_time, stats.total_searches)
                               ELSE Ratio(0, 1),
     adapter_performance |->
        [n \in {m \in AdapterNames : stats.adapter_performance[m].calls > 0} |->
            [success_rate |-> Ratio(stats.adapter_performance[n].successes,
                                    stats.adapter_performance[n].calls),
             total_calls |-> stats.adapter_performance[n].calls]]]

\* search() calls one after the other whose durations vary, for the
\* statistics of the response time
NextStats ==
    \/ searches = 0 /\ LoadAdapters(<<"duckduckgo", "google">>)
    \/ \E c \in Callers, strategy \in Strategies :
          /\ loads > 0
          /\ Serial(c)
          /\ \A d \in Callers : d < c => call[d].pc # "idle"
          /\ SearchBegin(c, {"rocket", "science"}, strategy, config)
    \/ Steps(FALSE, TRUE)

SpecStats == Init /\ [][NextStats]_vars

\* reset_statistics: with self._stats_lock, a new dict of zeros
ResetStatistics ==
    /\ probe = NoProbe
    /\ CanAcquire(<<0, 0>>)
    /\ stats' = ZeroStats
    /\ probe' = [NoProbe EXCEPT !.fn = "reset_statistics", !.done = TRUE]
    /\ UNCHANGED <<adapters, loaded, config, lock, call, task, applied, invoked, returned,
                   searches, loads>>

\* search() calls that overlap on an orchestrator with one adapter, and one
\* reset_statistics() at any moment
NextReset ==
    \/ searches = 0 /\ LoadAdapters(<<"duckduckgo">>)
    \/ \E c \in Callers, strategy \in Strategies :
          /\ loads > 0
          /\ \A d \in Callers : d < c => call[d].pc # "idle"
          /\ SearchBegin(c, {"rocket", "science"}, strategy, config)
    \/ loads > 0 /\ ResetStatistics
    \/ Steps(FALSE, FALSE)

SpecReset == Init /\ [][NextReset]_vars

\* the configurations of the calls on an orchestrator whose adapter
\* duckduckgo is named in both tiers
OverlapConfigs ==
    {DefaultConfig,
     [DefaultConfig EXCEPT !.preferred_adapters = <<"duckduckgo">>,
                           !.fallback_adapters = <<"duckduckgo", "google">>]}

NextOverlap ==
    \/ searches = 0 /\ LoadAdapters(<<"duckduckgo", "google">>)
    \/ \E c \in Callers, strategy \in ValidStrategies, search_config \in OverlapConfigs :
          /\ loads > 0
          /\ Serial(c)
          /\ \A d \in Callers : d < c => call[d].pc # "idle"
          /\ SearchBegin(c, {"rocket", "science"}, strategy, search_config)
    \/ Steps(FALSE, FALSE)

SpecOverlap == Init /\ [][NextOverlap]_vars

(***************************************************************************)
(* ResultRanker.rank_results and the canonicalizer called directly         *)
(***************************************************************************)
\* the results a list given to rank_results is made of
RankPool == {ResultA, ResultB, ResultC, ResultD, ResultE}

RankInputs == UNION {[1..n -> RankPool] : n \in 0..MaxResults}

\* a call rank_results(results, query) is about to be made
InitRank ==
    /\ Fresh
    /\ \E results \in RankInputs, query \in Queries :
          probe = [NoProbe EXCEPT !.fn = "rank_results", !.args = <<results, query>>]

\* ResultRanker.rank_results(results, query)
RankResults ==
    /\ probe.fn = "rank_results"
    /\ ~probe.done
    /\ probe' = [probe EXCEPT !.done = TRUE,
                              !.out = rank_results(probe.args[1], probe.args[2])]
    /\ UNCHANGED <<adapters, loaded, config, stats, lock, call, task, applied, invoked,
                   returned, searches, loads>>

SpecRank == InitRank /\ [][RankResults]_vars

\* the keys and values of the query strings canonicalize_url is called with
QueryKeys == {"a", "b", "Ref", "utm_x", "ranMID"}

QueryValues == {"1", "2", "", " "}

QueryInputs == UNION {[1..n -> QueryKeys \X QueryValues] : n \in 0..MaxPairs}

\* a call canonicalize_url(url, remove_tracking=..., sort_query_params=...)
\* is about to be made
InitQuery ==
    /\ Fresh
    /\ \E query \in QueryInputs, remove_tracking \in BOOLEAN, sort_query_params \in BOOLEAN :
          probe = [NoProbe EXCEPT
                      !.fn = "canonicalize_url",
                      !.args = <<Url("https", <<"a", "com">>, <<"/", "x">>, query, ""),
                                 TRUE, remove_tracking, TRUE, sort_query_params>>]

\* URLCanonicalizer.canonicalize_url(url, remove_fragment, remove_tracking,
\* normalize_domain, sort_query_params)
CanonicalizeUrl ==
    /\ probe.fn = "canonicalize_url"
    /\ ~probe.done
    /\ probe' = [probe EXCEPT
                    !.done = TRUE,
                    !.out = <<CanonicalizeWith(probe.args[1], probe.args[2], probe.args[3],
                                               probe.args[4], probe.args[5])>>]
    /\ UNCHANGED <<adapters, loaded, config, stats, lock, call, task, applied, invoked,
                   returned, searches, loads>>

SpecQuery == InitQuery /\ [][CanonicalizeUrl]_vars

\* the values canonicalize_url is called with: None, a number, and strings
\* with and without surrounding whitespace, empty, blank, without scheme and
\* host, unparseable and well formed
ValueInputs ==
    {NoneValue, Value("int", FALSE, EmptyUrl, FALSE, FALSE)}
    \cup {value \in {Value("str", lead, Url(scheme, host, path, query, ""), bad, trail) :
                        lead \in BOOLEAN, trail \in BOOLEAN, bad \in BOOLEAN,
                        scheme \in {"", "https", "HTTPS"},
                        host \in {<<>>, <<"a", "com">>, <<"www", "a", "com">>},
                        path \in {<<>>, <<"x">>, <<"/", "x", "/">>},
                        query \in {<<>>, <<<<"a", "1">>>>}} :
            value.bad => value.url.host # <<>>}

\* a call canonicalize_url(value) is about to be made
InitValue ==
    /\ Fresh
    /\ \E value \in ValueInputs :
          probe = [NoProbe EXCEPT !.fn = "canonicalize_url(value)", !.args = <<value>>]

\* canonicalize_url(value) with the default options
CanonicalizeAny ==
    /\ probe.fn = "canonicalize_url(value)"
    /\ ~probe.done
    /\ probe' = [probe EXCEPT
                    !.done = TRUE,
                    !.out = <<CanonicalizeValue(probe.args[1], TRUE, TRUE, TRUE, TRUE)>>]
    /\ UNCHANGED <<adapters, loaded, config, stats, lock, call, task, applied, invoked,
                   returned, searches, loads>>

SpecValue == InitValue /\ [][CanonicalizeAny]_vars

\* the URLs the lists given to deduplicate_urls are made of: four ways of
\* writing one page and two other pages
UrlPool ==
    {Url("https", <<"a", "com">>, <<"/", "x">>, <<>>, ""),
     Url("https", <<"www", "a", "com">>, <<"/", "x">>, <<>>, ""),
     Url("HTTPS", <<"a", "com">>, <<"/", "x", "/">>, <<>>, "y"),
     Url("https", <<"a", "com">>, <<"/", "x">>, <<<<"utm_source", "y">>>>, ""),
     Url("https", <<"a", "com">>, <<"/", "x">>, <<<<"a", "1">>>>, ""),
     Url("https", <<"other", "org">>, <<>>, <<>>, "")}

UrlLists == UNION {[1..n -> UrlPool] : n \in 0..MaxUrls}

\* a call deduplicate_urls(urls) is about to be made
InitDedup ==
    /\ Fresh
    /\ \E urls \in UrlLists :
          probe = [NoProbe EXCEPT !.fn = "deduplicate_urls", !.args = <<urls>>]

\* URLCanonicalizer.deduplicate_urls(urls)
DeduplicateUrls ==
    /\ probe.fn = "deduplicate_urls"
    /\ ~probe.done
    /\ probe' = [probe EXCEPT !.done = TRUE, !.out = deduplicate_urls(probe.args[1])]
    /\ UNCHANGED <<adapters, loaded, config, stats, lock, call, task, applied, invoked,
                   returned, searches, loads>>

SpecDedup == InitDedup /\ [][DeduplicateUrls]_vars

\* the entries of the responses: one whose link is not in canonical form, one
\* whose link is, one without a title
ItemPool ==
    {Item(Text({"rocket"}, 6),
          Url("HTTPS", <<"www", "A", "com">>, <<"/", "x", "/">>, <<>>, "y"),
          Text({"rocket", "launch", "notes"}, 30)),
     Item(Text({"different", "result"}, 16),
          Url("https", <<"other", "org">>, <<"/">>, <<>>, ""),
          Text({"other"}, 5)),
     Item(NoText, Url("https", <<"a", "com">>, <<"/", "x">>, <<>>, ""), NoText)}

Pages == UNION {[1..n -> ItemPool] : n \in 0..MaxItems}

Envs ==
    {Env(creds, tool, http, proc, page) :
        creds \in BOOLEAN, tool \in BOOLEAN, http \in {"ok", "error", "garbage"},
        proc \in {"ok", "nonzero", "raises"}, page \in Pages}

\* a call adapter.search(query, limit) is about to be made
InitAdapters ==
    /\ Fresh
    /\ \E name \in AdapterNames, env \in Envs, limit \in 0..MaxLimit :
          probe = [NoProbe EXCEPT !.fn = "adapter.search", !.args = <<name, env, limit>>]

\* adapter.search(query, limit)
AdapterSearch ==
    /\ probe.fn = "adapter.search"
    /\ ~probe.done
    /\ probe' = [probe EXCEPT
                    !.done = TRUE,
                    !.out = <<AdapterSearchOutcome(probe.args[1], probe.args[2],
                                                   probe.args[3])>>]
    /\ UNCHANGED <<adapters, loaded, config, stats, lock, call, task, applied, invoked,
                   returned, searches, loads>>

SpecAdapters == InitAdapters /\ [][AdapterSearch]_vars

\* the URLs canonicalize_url is called with
BaseUrls ==
    {Url("https", host, path, query, "") :
        host \in {<<"a", "com">>, <<"www", "a", "com">>, <<"m", "a", "com">>},
        path \in {<<>>, <<"/", "x">>, <<"/", "x", "/", "y">>},
        query \in {<<>>, <<<<"a", "1">>>>, <<<<"b", "2">>, <<"a", "1">>>>,
                   <<<<"a", "1">>, <<"ref", "x">>>>}}

\* the ways a second URL differs from a first one that should not matter
SameKinds ==
    {"scheme_case", "host_case", "www", "www2", "m", "mobile", "tracking",
     "query_order", "slashes", "trailing", "fragment"}

\* the ways that should matter
OtherKinds == {"path", "value"}

Reversed(s) == [i \in 1..Len(s) |-> s[Len(s) + 1 - i]]

\* a URL that differs from url in one way
Vary(kind, url) ==
    CASE kind = "scheme_case" -> [url EXCEPT !.scheme = "HTTPS"]
      [] kind = "host_case" ->
            [url EXCEPT !.host = [i \in 1..Len(url.host) |->
                                    IF url.host[i] = "a" THEN "A" ELSE url.host[i]]]
      [] kind = "www" -> [url EXCEPT !.host = <<"www">> \o @]
      [] kind = "www2" -> [url EXCEPT !.host = <<"www2">> \o @]
      [] kind = "m" -> [url EXCEPT !.host = <<"m">> \o @]
      [] kind = "mobile" -> [url EXCEPT !.host = <<"mobile">> \o @]
      [] kind = "tracking" -> [url EXCEPT !.query = @ \o <<<<"utm_source", "y">>>>]
      [] kind = "query_order" -> [url EXCEPT !.query = Reversed(@)]
      [] kind = "slashes" -> [url EXCEPT !.path = IF @ = <<>> THEN @ ELSE <<"/">> \o @]
      [] kind = "trailing" -> [url EXCEPT !.path = IF @ = <<>> THEN @ ELSE @ \o <<"/">>]
      [] kind = "fragment" -> [url EXCEPT !.frag = "y"]
      [] kind = "path" -> [url EXCEPT !.path = @ \o <<"/", "y">>]
      [] kind = "value" ->
            [url EXCEPT !.query = [i \in 1..Len(@) |->
                                     IF @[i][1] = "a" THEN <<"a", "2">> ELSE @[i]]]

\* a call are_urls_equivalent(url1, url2) is about to be made, url2 a
\* variation of url1
InitUrls ==
    /\ Fresh
    /\ \E url \in BaseUrls, kind \in SameKinds \cup OtherKinds :
          probe = [NoProbe EXCEPT !.fn = "are_urls_equivalent",
                                  !.args = <<url, Vary(kind, url)>>, !.note = kind]

\* URLCanonicalizer.are_urls_equivalent(url1, url2): both canonical forms and
\* their comparison
AreUrlsEquivalent ==
    /\ probe.fn = "are_urls_equivalent"
    /\ ~probe.done
    /\ LET canonical1 == Canonicalize(probe.args[1])
           canonical2 == Canonicalize(probe.args[2])
       IN  probe' = [probe EXCEPT !.done = TRUE,
                                  !.out = <<canonical1, canonical2,
                                            canonical1 = canonical2>>]
    /\ UNCHANGED <<adapters, loaded, config, stats, lock, call, task, applied, invoked,
                   returned, searches, loads>>

SpecUrls == InitUrls /\ [][AreUrlsEquivalent]_vars

\* the arguments of load_adapters: None, or a list of names, registered or
\* not
LoadInputs ==
    {None} \cup UNION {[1..n -> AdapterNames \cup {"nonexistent"}] : n \in 0..MaxNames}

\* load_adapters() calls on an orchestrator that is not searching
NextLoad == \E names \in LoadInputs : LoadAdapters(names)

SpecLoad == Init /\ [][NextLoad]_vars

\* the configurations of the calls that exercise the two tiers of the
\* adaptive strategy
TierConfigs ==
    {DefaultConfig,
     [DefaultConfig EXCEPT !.min_snippet_length = 40, !.max_total_results = 3]}

\* search() calls one after the other on an orchestrator that has loaded a
\* preferred adapter and two fallback adapters
NextTiers ==
    \/ searches = 0 /\ LoadAdapters(<<"duckduckgo", "google", "bing">>)
    \/ \E c \in Callers, strategy \in ValidStrategies, search_config \in TierConfigs :
          /\ loads > 0
          /\ Serial(c)
          /\ \A d \in Callers : d < c => call[d].pc # "idle"
          /\ SearchBegin(c, {"rocket", "science"}, strategy, search_config)
    \/ Steps(TRUE, FALSE)

SpecTiers == Init /\ [][NextTiers]_vars

(***************************************************************************)
(* Properties                                                              *)
(***************************************************************************)
Done(c) == call[c].pc = "done"

\* the filtered results of the adapters of a call that did not raise
Delivered(c) ==
    UNION {Range(FilterBySnippet(e.out, call[c].config)) : e \in {x \in call[c].log : ~x.raised}}

\* a result is in the returned list, by its canonical URL when the call
\* deduplicates
Represented(r, c) ==
    IF call[c].config.enable_deduplication
    THEN \E k \in 1..Len(call[c].ret) : Canonicalize(call[c].ret[k].url) = Canonicalize(r.url)
    ELSE r \in Range(call[c].ret)

\* the returned list is in the order of the ranker
RankedOrder(c) ==
    \A k \in 1..Len(call[c].ret) - 1 :
        Score(call[c].ret[k], call[c].query) >= Score(call[c].ret[k + 1], call[c].query)

\* a parallel or sequential call in which an adapter raised and whose
\* deadline did not expire
IsolationCase(c) ==
    /\ Done(c)
    /\ call[c].strategy \in {"parallel", "sequential"}
    /\ ~call[c].timedout
    /\ \E e \in call[c].log : e.raised

C2_TimeoutPartialResults ==
    \A c \in Callers :
        Done(c) /\ call[c].strategy = "parallel" /\ call[c].timedout
                /\ call[c].presults # <<>> =>
            /\ call[c].verdict = "success"
            /\ call[c].ret = PostProcess(call[c].presults, call[c].query, call[c].config)

\* C3: bounded wait. Once the deadline of a parallel search has expired the
\* call can go on to return, whatever its workers are doing.
C3_BoundedWait ==
    \A c \in Callers : call[c].pc = "shutdown" => ENABLED ExecutorShutdown(c)

\* C4: all adapters down. A search in which every call of an adapter raised
\* returns an empty list and is counted as a failed search.
C4_AllDownCountsFailed ==
    \A c \in Callers :
        Done(c) /\ call[c].log # {} /\ (\A e \in call[c].log : e.raised) =>
            /\ call[c].outcome = "returned"
            /\ call[c].ret = <<>>
            /\ call[c].verdict = "failure"

\* C5 as claimed: a search with a strategy that is none of parallel,
\* sequential, adaptive raises to its caller.
C5_UnknownStrategyRaises ==
    \A c \in Callers :
        Done(c) /\ call[c].strategy \notin ValidStrategies => call[c].outcome = "raised"

\* C5 as amended: a search with a strategy that is none of parallel,
\* sequential, adaptive does not raise: it calls no adapter, returns an
\* empty list and is counted in failed_searches.
C5_UnknownStrategyDegrades ==
    \A c \in Callers :
        Done(c) /\ call[c].strategy \notin ValidStrategies =>
            /\ call[c].outcome = "returned"
            /\ call[c].ret = <<>>
            /\ call[c].log = {}
            /\ call[c].verdict = "failure"
            /\ stats.failed_searches > 0

C5_Witness ==
    \E c \in Callers :
        /\ Done(c)
        /\ call[c].strategy = "bogus"
        /\ call[c].outcome = "returned"
        /\ stats.failed_searches = 1
        /\ stats.total_searches = 1

\* no thread is inside search() and no worker is running
Quiescent ==
    /\ \A c \in Callers : ~InFlight(c)
    /\ \A c \in Callers : \A i \in 1..Len(task[c]) : task[c][i].st = "done"

\* C6: per-provider accounting. calls counts the calls of the adapter's
\* search, successes those that returned: never more, and exactly as many
\* when nothing is in flight.
C6_PerProviderAccounting ==
    \A n \in AdapterNames :
        /\ stats.adapter_performance[n].calls <= invoked[n]
        /\ stats.adapter_performance[n].successes <= returned[n]
        /\ Quiescent =>
              /\ stats.adapter_performance[n].calls = invoked[n]
              /\ stats.adapter_performance[n].successes = returned[n]

\* the number of elements of a set of callers
Count(S) == Cardinality(S)

\* C7: aggregate accounting. total_searches counts the calls that have passed
\* their first step, successful_searches + failed_searches the calls that have
\* ended, each ended call counted as exactly one of the two; with no call in
\* flight total_searches = successful_searches + failed_searches.
C7_AggregateAccounting ==
    /\ stats.total_searches
         = searches - Count({c \in Callers : call[c].pc \in {"total", "total_w"}})
    /\ stats.successful_searches + stats.failed_searches
         = searches - Count({c \in Callers : InFlight(c)})
    /\ \A c \in Callers : Done(c) => call[c].verdict \in {"success", "failure"}
    /\ (\A c \in Callers : ~InFlight(c)) =>
          stats.total_searches = stats.successful_searches + stats.failed_searches

C7_Witness ==
    /\ \A c \in Callers : ~InFlight(c)
    /\ stats.total_searches = 2
    /\ stats.successful_searches = 1
    /\ stats.failed_searches = 1

\* the program points between the read and the write of a counter
WritePoints == {"total_w", "success_w", "failed_w", "exc_w", "seq_stat_w"}

\* C8: no lost statistics updates. A thread between the read and the write
\* of a counter holds the statistics lock, and the counters always equal the
\* sum of the increments made so far, whatever the interleaving of the
\* workers and of the concurrent calls.
C8_NoLostUpdates ==
    /\ \A c \in Callers : call[c].pc \in WritePoints => lock = <<c, 0>>
    /\ \A c \in Callers : \A i \in 1..Len(task[c]) :
          task[c][i].st = "locked" => lock = <<c, i>>
    /\ stats = applied

\* a worker of one call holds the lock while a worker of the other call has
\* a result of the same adapter to record, after an earlier update
C8_Witness ==
    \E c, d \in Callers : \E i \in 1..Len(task[c]) : \E j \in 1..Len(task[d]) :
        /\ c # d
        /\ task[c][i].st = "locked"
        /\ task[d][j].st = "called"
        /\ task[c][i].adapter = task[d][j].adapter
        /\ applied.total_searches = 2

\* C9: the loaded list under concurrent searches. A parallel search that has
\* set up its executor has dispatched to exactly the loaded adapters, also
\* while an adaptive search is in flight.
C9_ParallelDispatchesLoaded ==
    \A c \in Callers :
        /\ call[c].strategy = "parallel"
        /\ call[c].pc \notin {"idle", "total", "total_w", "par_begin"}
        => call[c].dispatched = loaded

\* C10: deduplication. The list returned by a search that deduplicates holds
\* no two results with the same canonical URL, and each result of the list
\* is the first of the merged results with its canonical URL.
C10_DedupKeepsFirst ==
    \A c \in Callers :
        Done(c) /\ call[c].config.enable_deduplication =>
            /\ \A j, k \in 1..Len(call[c].ret) :
                  j # k => Canonicalize(call[c].ret[j].url) # Canonicalize(call[c].ret[k].url)
            /\ \A k \in 1..Len(call[c].ret) :
                  \E j \in 1..Len(call[c].results) :
                      /\ call[c].results[j] = call[c].ret[k]
                      /\ \A m \in 1..(j - 1) :
                            Canonicalize(call[c].results[m].url)
                                # Canonicalize(call[c].ret[k].url)

\* two merged results with different URLs of one canonical form, of which
\* the first is returned
C10_Witness ==
    \E c \in Callers :
        /\ Done(c)
        /\ call[c].config.enable_deduplication
        /\ \E j, m \in 1..Len(call[c].results) :
              /\ j < m
              /\ call[c].results[j].url # call[c].results[m].url
              /\ Canonicalize(call[c].results[j].url) = Canonicalize(call[c].results[m].url)
              /\ call[c].results[j] \in Range(call[c].ret)

\* C18: the derived fields of get_search_statistics. With total_searches > 0,
\* success_rate * total_searches = successful_searches and
\* average_response_time * total_searches = total_response_time; with
\* total_searches = 0 both are 0. The counters of the snapshot are those
\* of search_stats.
C18_DerivedFields ==
    LET g == GetStatistics
    IN  /\ g.total_searches = stats.total_searches
        /\ g.successful_searches = stats.successful_searches
        /\ g.total_response_time = stats.total_response_time
        /\ g.success_rate.den # 0
        /\ g.average_response_time.den # 0
        /\ g.total_searches > 0 =>
              /\ g.success_rate.num * g.total_searches
                    = g.successful_searches * g.success_rate.den
              /\ g.average_response_time.num * g.total_searches
                    = g.total_response_time * g.average_response_time.den
        /\ g.total_searches = 0 =>
              g.success_rate.num = 0 /\ g.average_response_time.num = 0

\* two calls have ended, one with an unknown strategy and one a success
\* that took two ticks: success_rate is 1/2, average_response_time 2/2
C18_Witness ==
    /\ \A c \in Callers : ~InFlight(c)
    /\ \E c \in Callers : Done(c) /\ call[c].strategy = "bogus"
    /\ stats.total_searches = 2
    /\ stats.successful_searches = 1
    /\ stats.total_response_time = 2
    /\ GetStatistics.success_rate = Ratio(1, 2)
    /\ GetStatistics.average_response_time = Ratio(2, 2)

\* the canonical URLs of a set of results
CanonicalForms(rs) == {Canonicalize(r.url) : r \in rs}

\* the number of results the adapters of a call delivered, counted once per
\* canonical URL when the call deduplicates
UniqueDelivered(c) ==
    IF call[c].config.enable_deduplication
    THEN Cardinality(CanonicalForms(Delivered(c)))
    ELSE Cardinality(Delivered(c))

FilteredOf(c, i) ==
    LET e == CHOOSE x \in call[c].log : x.i = i
    IN  IF e.raised THEN <<>> ELSE FilterBySnippet(e.out, call[c].config)

\* the filtered results of the first n adapter calls, in order
Concatenated(c, n) == Flatten([i \in 1..n |-> FilteredOf(c, i)])

\* C15: the sequential strategy. The adapters are called on the calling
\* thread (no worker exists), one after the other in the order of the loaded
\* list self.adapters, each call once; between two calls the merged list is the concatenation of the
\* filtered results of the calls made, in that order, and the loop ends
\* after the last loaded adapter.
C15_SequentialOrder ==
    \A c \in Callers :
        call[c].strategy = "sequential" =>
            LET n == Len(call[c].dispatched)
            IN  /\ task[c] = <<>>
                /\ \A i \in 1..n : Cardinality({x \in call[c].log : x.i = i}) = 1
                /\ \A x \in call[c].log :
                      x.i \in 1..n /\ x.adapter = call[c].dispatched[x.i]
                /\ InFlight(c) =>
                      /\ n <= Len(adapters)
                      /\ call[c].dispatched = SubSeq(adapters, 1, n)
                /\ call[c].pc \in {"success", "success_w"} => call[c].dispatched = adapters
                /\ call[c].pc \in {"seq_call", "success", "success_w", "done"} =>
                      call[c].results = Concatenated(c, n)

\* both adapters returned, the first two results and the second one
C15_Witness ==
    \E c \in Callers :
        /\ Done(c)
        /\ call[c].strategy = "sequential"
        /\ call[c].dispatched = <<"duckduckgo", "google">>
        /\ call[c].results = <<ResultD, ResultA, ResultB>>

\* C11: the minimum snippet filter. Under every strategy, no result of a
\* successful search has a snippet shorter than min_snippet_length of the
\* call's configuration, and every result an adapter returned with a snippet
\* at least that long is in the merged list.
C11_MinSnippetFilter ==
    \A c \in Callers :
        Done(c) /\ call[c].verdict = "success" =>
            /\ \A k \in 1..Len(call[c].ret) :
                  call[c].ret[k].snippet.len >= call[c].config.min_snippet_length
            /\ \A e \in call[c].log : \A k \in 1..Len(e.out) :
                  ~e.raised /\ e.out[k].snippet.len >= call[c].config.min_snippet_length
                  => e.out[k] \in Range(call[c].results)

\* the calls of adapter.search an adaptive search made in one of its passes
PassCalls(c, pass) == {e \in call[c].log : e.pass = pass}

\* the filtered results of a call of adapter.search in a pass
PassResults(c, e) ==
    IF e.raised THEN <<>>
    ELSE FilterBySnippet(e.out, IF e.pass = "preferred" THEN QuickConfig(call[c].config)
                                ELSE call[c].config)

\* the number of results the calls of a set gathered
RECURSIVE Gathered(_, _)
Gathered(c, calls) ==
    IF calls = {} THEN 0
    ELSE LET e == CHOOSE x \in calls : TRUE
         IN  Len(PassResults(c, e)) + Gathered(c, calls \ {e})

\* C14: the two tiers of the adaptive strategy. At the end of an adaptive
\* search whose deadline did not expire, the preferred pass has called
\* exactly the loaded adapters named in preferred_adapters; the fallback
\* pass has run, over exactly the loaded adapters named in
\* fallback_adapters, if and only if there is such an adapter and twice the
\* number of results of the preferred pass is below max_total_results; and
\* the merged list is the results of the preferred pass followed by those
\* of the fallback pass.
C14_AdaptiveTiers ==
    \A c \in Callers :
        call[c].pc = "success" /\ call[c].strategy = "adaptive" =>
            LET preferred == PassCalls(c, "preferred")
                fallback == PassCalls(c, "fallback")
                count == Gathered(c, preferred)
                named == AdaptersNamed(adapters, call[c].config.fallback_adapters)
            IN  /\ {e.adapter : e \in preferred}
                      = Range(AdaptersNamed(adapters, call[c].config.preferred_adapters))
                /\ fallback # {} <=>
                      named # <<>> /\ 2 * count < call[c].config.max_total_results
                /\ fallback # {} => {e.adapter : e \in fallback} = Range(named)
                /\ Len(call[c].results) = count + Gathered(c, fallback)
                /\ \A k \in 1..Len(call[c].results) :
                      \E e \in (IF k <= count THEN preferred ELSE fallback) :
                          call[c].results[k] \in Range(PassResults(c, e))

\* C16: the fallback pass of the adaptive strategy. While an adaptive search
\* is in its fallback pass, at most one call of a fallback adapter is under
\* way: no two workers are inside _search_with_adapter together.
C16_FallbackOneAtATime ==
    \A c \in Callers :
        call[c].pass = "fallback" =>
            Cardinality({i \in 1..Len(task[c]) : task[c][i].st \in {"called", "locked"}}) <= 1

\* C17: load_adapters. A call with a list of names leaves loaded exactly the
\* registered names of the list, in list order, whatever was loaded before;
\* only a call with None loads every registered adapter.
C17_LoadReplaces ==
    [][\A names \in LoadInputs :
          LoadAdapters(names) =>
              adapters' = IF names = None THEN Registry
                          ELSE SelectSeq(names, LAMBDA name : name \in AdapterNames)]_vars

\* the number of times a result occurs in a list
Occurrences(list, result) == Cardinality({i \in 1..Len(list) : list[i] = result})

\* C13: rank_results. The list returned by rank_results(results, query) is
\* a permutation of results in which no result is followed by one of higher
\* score, the results of equal score are in the order they had in results,
\* and the empty list is returned for the empty list.
C13_RankStable ==
    probe.fn = "rank_results" /\ probe.done =>
        LET results == probe.args[1]
            query_terms == probe.args[2]
            ranked == probe.out
            SameScore(r, k) == Score(r, query_terms) = Score(results[k], query_terms)
        IN  /\ Len(ranked) = Len(results)
            /\ \A r \in RankPool : Occurrences(ranked, r) = Occurrences(results, r)
            /\ \A k \in 1..Len(ranked) - 1 :
                  Score(ranked[k], query_terms) >= Score(ranked[k + 1], query_terms)
            /\ \A k \in 1..Len(results) :
                  SelectSeq(ranked, LAMBDA r : SameScore(r, k))
                      = SelectSeq(results, LAMBDA r : SameScore(r, k))
            /\ results = <<>> => ranked = <<>>

\* two results of equal score keep their order while a result of higher
\* score given after them is returned first
C13_Witness ==
    /\ probe.fn = "rank_results"
    /\ probe.done
    /\ probe.args[1] = <<ResultE, ResultA, ResultB>>
    /\ probe.out = <<ResultB, ResultE, ResultA>>
    /\ ResultE # ResultA
    /\ Score(ResultE, probe.args[2]) = Score(ResultA, probe.args[2])

\* C19: idempotence. The canonical form of a URL is its own canonical form.
C19_Idempotent ==
    probe.fn = "are_urls_equivalent" /\ probe.done =>
        /\ Canonicalize(probe.out[1]) = probe.out[1]
        /\ Canonicalize(probe.out[2]) = probe.out[2]

\* C20: canonical equivalence. Two URLs that differ only in the case of the
\* scheme or host, one leading www, www<digits>, m or mobile label, a
\* tracking parameter, the order of the query, repeated or trailing slashes
\* of a non-root path, or the fragment have the same canonical form; two
\* URLs that differ in the path or in the value of a parameter that is not
\* a tracking parameter do not.
C20_CanonicalEquivalence ==
    probe.fn = "are_urls_equivalent" /\ probe.done =>
        /\ probe.note \in SameKinds => probe.out[1] = probe.out[2]
        /\ probe.note \in OtherKinds /\ probe.args[1] # probe.args[2] =>
              probe.out[1] # probe.out[2]

\* the keys of a query
KeysOf(query) == {query[i][1] : i \in 1..Len(query)}

\* a key that equals an entry of the block-list when case is ignored, or
\* starts with utm_
BlockListed(key) ==
    \/ \E entry \in TrackingParams : LowerTok(entry) = LowerTok(key)
    \/ StartsWithUtm(LowerTok(key))

\* C21: tracking-parameter removal. With tracking removal enabled, no key
\* that case-insensitively equals an entry of the block-list or starts with
\* utm_ is in the canonical URL, and every other key that has a non-blank
\* value is in it.
C21_TrackingRemoved ==
    probe.fn = "canonicalize_url" /\ probe.done /\ probe.args[3] =>
        LET query == probe.args[1].query
            canonical == probe.out[1].query
        IN  \A i \in 1..Len(query) :
              /\ BlockListed(query[i][1]) => query[i][1] \notin KeysOf(canonical)
              /\ ~BlockListed(query[i][1]) /\ StripTok(query[i][2]) # "" =>
                    query[i][1] \in KeysOf(canonical)

\* C30: first-seen order. With query sorting disabled the pairs of the
\* canonical query are in the order they have in the input query.
C30_FirstSeenOrder ==
    probe.fn = "canonicalize_url" /\ probe.done /\ ~probe.args[5] =>
        LET query == probe.args[1].query
            canonical == probe.out[1].query
        IN  SelectSeq(query, LAMBDA kv : kv \in Range(canonical)) = canonical

\* a str that is empty or made of whitespace only
Blank(value) == value.kind = "str" /\ value.url = EmptyUrl /\ ~value.bad

\* C22: canonicalize_url is total. For every value it returns a str and
\* does not raise; it returns the empty string for None, the empty string
\* and a blank string, and the trimmed input for a string that has neither
\* a scheme nor a host.
C22_Total ==
    probe.fn = "canonicalize_url(value)" /\ probe.done =>
        LET value == probe.args[1]
            outcome == probe.out[1]
        IN  /\ ~outcome.raised
            /\ outcome.value.kind = "str"
            /\ value = NoneValue \/ Blank(value) => outcome.value = EmptyStr
            /\ value.kind = "str" /\ value.url.scheme = "" /\ value.url.host = <<>> =>
                  outcome.value = Strip(value)

\* a string without scheme and host, given with whitespace around it, comes
\* back trimmed
C22_Witness ==
    /\ probe.fn = "canonicalize_url(value)"
    /\ probe.done
    /\ probe.args[1].lead
    /\ probe.args[1].trail
    /\ probe.args[1].url = Url("", <<>>, <<"x">>, <<>>, "")
    /\ probe.out[1] = Outcome(FALSE, Str(Url("", <<>>, <<"x">>, <<>>, ""), FALSE))

\* the positions of a list whose canonical form does not occur before them
FirstPositions(urls) ==
    {i \in 1..Len(urls) :
        \A j \in 1..i - 1 : Canonicalize(urls[j]) # Canonicalize(urls[i])}

\* C23: deduplicate_urls. The list returned by deduplicate_urls(urls) is
\* made of the first URL of each canonical form that occurs in urls, as it
\* is written in urls, in the order of urls.
C23_FirstOccurrenceWins ==
    probe.fn = "deduplicate_urls" /\ probe.done =>
        LET urls == probe.args[1]
            deduplicated == probe.out
        IN  /\ Len(deduplicated) = Cardinality(FirstPositions(urls))
            /\ \E f \in [1..Len(deduplicated) -> FirstPositions(urls)] :
                  /\ \A k \in 1..Len(deduplicated) : deduplicated[k] = urls[f[k]]
                  /\ \A k \in 1..Len(deduplicated) - 1 : f[k] < f[k + 1]

\* a list of three URLs whose first and last are two ways of writing one
\* page comes back without the last
C23_Witness ==
    /\ probe.fn = "deduplicate_urls"
    /\ probe.done
    /\ probe.args[1] = <<Url("https", <<"www", "a", "com">>, <<"/", "x">>, <<>>, ""),
                         Url("https", <<"other", "org">>, <<>>, <<>>, ""),
                         Url("HTTPS", <<"a", "com">>, <<"/", "x", "/">>, <<>>, "y")>>
    /\ probe.out = <<Url("https", <<"www", "a", "com">>, <<"/", "x">>, <<>>, ""),
                     Url("https", <<"other", "org">>, <<>>, <<>>, "")>>

\* adapter.search has returned
Searched == probe.fn = "adapter.search" /\ probe.done

\* C24: canonical URL at construction. Every result an adapter returns has
\* as url the canonical form of the link of the entry it was made from.
C24_StoresCanonical ==
    Searched =>
        LET results == probe.out[1].value
        IN  \A i \in 1..Len(results) :
              \E item \in Range(probe.args[2].page) :
                  /\ results[i].title = item.title
                  /\ results[i].snippet = item.snippet
                  /\ results[i].url = Canonicalize(item.url)

\* an adapter returns a result whose url is not the link of the entry
C24_Witness ==
    /\ Searched
    /\ \E i \in 1..Len(probe.out[1].value) :
          /\ probe.out[1].value[i].url = Url("https", <<"a", "com">>, <<"/", "x">>, <<>>, "")
          /\ \A item \in Range(probe.args[2].page) :
                item.url # probe.out[1].value[i].url

\* the external tool of lynx or curl is missing, exits non-zero or cannot
\* be run
ToolFails(env) == ~env.tool \/ env.proc # "ok"

\* an ordinary failure of the adapter of a name: the request fails, the
\* response is empty or cannot be parsed, or the tool fails
FailureMode(name, env) ==
    \/ env.page = <<>>
    \/ name \in {"google", "bing", "duckduckgo"} /\ env.http # "ok"
    \/ name \in {"lynx", "curl"} /\ ToolFails(env)

\* C25 as stated: an adapter whose search meets an ordinary failure returns
\* the empty list and does not raise.
C25_FailureGivesEmpty ==
    Searched /\ FailureMode(probe.args[1], probe.args[2]) =>
        probe.out[1] = Outcome(FALSE, <<>>)

\* C25: no adapter raises, and an adapter whose search meets an ordinary
\* failure returns the empty list, except the lynx adapter whose tool
\* fails: it returns the results of the DuckDuckGo page, and the empty
\* list when that request fails.
C25_FailureNeverRaises ==
    Searched =>
        LET name == probe.args[1]
            env == probe.args[2]
            results == probe.out[1].value
        IN  /\ ~probe.out[1].raised
            /\ FailureMode(name, env) =>
                  \/ results = <<>>
                  \/ /\ name = "lynx"
                     /\ ToolFails(env)
                     /\ env.http = "ok"
                     /\ \A i \in 1..Len(results) : results[i].source = "duckduckgo"

\* lynx is not installed and the adapter returns results of the page
C25_Witness ==
    /\ Searched
    /\ probe.args[1] = "lynx"
    /\ ~probe.args[2].tool
    /\ ~probe.out[1].raised
    /\ probe.out[1].value # <<>>

\* C29: limit. adapter.search(query, limit) returns at most limit results.
C29_AtMostLimit ==
    Searched => Len(probe.out[1].value) <= probe.args[3]

\* C26: search() leaves the loaded adapters alone. Whenever no search()
\* call is in progress, self.adapters is the list load_adapters made.
C26_SearchKeepsAdapters ==
    (\A c \in Callers : ~InFlight(c)) => adapters = loaded

\* C27: no repeated call. Within one search() call no adapter's search is
\* invoked more than once.
C27_CalledAtMostOnce ==
    \A c \in Callers : \A name \in AdapterNames :
        Cardinality({e \in call[c].log : e.adapter = name}) <= 1

\* C28: the aggregate counters stay consistent. successful_searches +
\* failed_searches is at most total_searches, and the success_rate of
\* get_search_statistics is at most 1.
C28_CountersConsistent ==
    /\ stats.successful_searches + stats.failed_searches <= stats.total_searches
    /\ GetStatistics.success_rate.num <= GetStatistics.success_rate.den

====
